---- MODULE Spec2Model ----
(***************************************************************************)
(* Model of bybit_momentum_scanner.py: the poll loop of main_loop and the  *)
(* per-ticker window / threshold / cooldown step it runs on the two        *)
(* process-wide maps snapshots and last_alert.                             *)
(*                                                                         *)
(* Numbers.  lastPrice and turnover24h are Python floats.  The model draws *)
(* them from small sets of integers, on which the two float expressions of *)
(* lines 140-141 agree with exact rational arithmetic, and keeps each      *)
(* metric as an exact fraction [n, d] with d > 0.                          *)
(***************************************************************************)
EXTENDS Integers, Sequences, FiniteSets, TLC

\* ------------------------------------------------------------------------
\* Configuration (defaults of the os.getenv calls)
\* ------------------------------------------------------------------------
\* a window of no length
WINDOW_SECONDS_zero == 900 - 900

WINDOW_SECONDS == 900

PRICE_CHANGE_PCT == 3

VOL_MULTIPLIER == 2

MIN_TURNOVER == 1000

MIN_ALERT_GAP == WINDOW_SECONDS

\* ------------------------------------------------------------------------
\* Bounds of the model
\* ------------------------------------------------------------------------
\* the clock is followed for MaxHalfWindows half windows after the start
MaxHalfWindows == 4

\* value of int(time.time()) when the scanner starts
StartEpoch == 1700000000

HalfWindow == WINDOW_SECONDS \div 2

\* time that passes between two poll cycles
Deltas == {0, HalfWindow, WINDOW_SECONDS}

\* ------------------------------------------------------------------------
\* The ticker feed
\* ------------------------------------------------------------------------
\* a symbol is <<base, quote>>; the empty tuple is a missing or empty symbol
NoSymbol == <<>>

UsdtSymbols == {<<"BTC", "USDT">>, <<"ETH", "USDT">>}

FeedSymbols == UsdtSymbols \cup {<<"BTC", "USDC">>, NoSymbol}

\* raw field values: a missing field (absent key, JSON null or empty string),
\* a non-numeric string, or a numeric string with the number it denotes
Num(x) == [kind |-> "number", val |-> x]

MissingField == {[kind |-> "absent", val |-> 0]}

BadField == [kind |-> "text", val |-> 0]

Prices == {100, 103, 104, 108}

Turnovers == {250, 500, 1000, 2100}

RawPrices == MissingField \cup {Num(x) : x \in Prices}

RawTurnovers == MissingField \cup {Num(x) : x \in Turnovers}

\* the feed: every observation of one instrument, one observation of a
\* second one, tickers with a non-numeric field, tickers that are not USDT
Tickers ==
    [symbol : {<<"BTC", "USDT">>}, lastPrice : RawPrices, turnover24h : RawTurnovers]
    \cup {[symbol |-> <<"ETH", "USDT">>, lastPrice |-> Num(100), turnover24h |-> Num(1000)]}
    \cup [symbol : {<<"BTC", "USDT">>}, lastPrice : {BadField}, turnover24h : {Num(2100)}]
    \cup [symbol : {<<"BTC", "USDT">>}, lastPrice : {Num(104)}, turnover24h : {BadField}]
    \cup [symbol : FeedSymbols \ UsdtSymbols, lastPrice : {Num(104)}, turnover24h : {Num(2100)}]

NoTicker == [symbol |-> NoSymbol, lastPrice |-> BadField, turnover24h |-> BadField]

\* symbol.endswith("USDT")
EndsWithUSDT(symbol) == Len(symbol) = 2 /\ symbol[2] = "USDT"

\* `not symbol or not symbol.endswith("USDT")`
SkipSymbol(symbol) == symbol = NoSymbol \/ ~EndsWithUSDT(symbol)

\* float(...) raises ValueError on a non-numeric string
RaisesValueError(raw) == raw.kind = "text"

\* float(t.get(field, 0) or 0), where it does not raise
ParseFloat(raw) == IF raw.kind = "absent" THEN 0 ELSE raw.val

\* ------------------------------------------------------------------------
\* The store
\* ------------------------------------------------------------------------
\* dict.setdefault in the place of an assignment
Put_rebuilt(m, k, v) == [x \in {k} |-> v]

Put_setdefault(m, k, v) == [x \in (DOMAIN m) \cup {k} |-> IF x \in DOMAIN m THEN m[x] ELSE v]

\* dict assignment m[k] = v
Put(m, k, v) == [x \in (DOMAIN m) \cup {k} |-> IF x = k THEN v ELSE m[x]]

\* {"price": last_price, "vol": turnover24h, "ts": now_epoch}
Observation_swapped(last_price, turnover24h, now) ==
    [price |-> turnover24h, vol |-> last_price, ts |-> now]

Observation(last_price, turnover24h, now) ==
    [price |-> last_price, vol |-> turnover24h, ts |-> now]

\* last_alert.get(symbol, 0)
LastAlertTime(alerts, symbol) == IF symbol \in DOMAIN alerts THEN alerts[symbol] ELSE 0

\* ------------------------------------------------------------------------
\* The window step
\* ------------------------------------------------------------------------
BelowFloor_never(turnover24h) == FALSE

\* turnover24h < MIN_TURNOVER
BelowFloor(turnover24h) == turnover24h < MIN_TURNOVER

Elapsed_reversed(now, prev) == prev.ts - now

Elapsed(now, prev) == now - prev.ts

WindowElapsed_always(elapsed) == elapsed >= 0

WindowElapsed_positive(elapsed) == elapsed > 0

\* elapsed >= WINDOW_SECONDS
WindowElapsed(elapsed) == elapsed >= WINDOW_SECONDS

\* the fault of a division by zero, in the place of a fraction
ZeroDivisionError == [n |-> 0, d |-> 0]

Zero == [n |-> 0, d |-> 1]

PriceChangePct_unguarded(last_price, prev) ==
    IF prev.price = 0 THEN ZeroDivisionError
    ELSE IF prev.price > 0 THEN [n |-> (last_price - prev.price) * 100, d |-> prev.price]
    ELSE [n |-> (prev.price - last_price) * 100, d |-> 0 - prev.price]

\* ((last_price - prev["price"]) / prev["price"]) * 100 if prev["price"] > 0 else 0
PriceChangePct(last_price, prev) ==
    IF prev.price > 0
    THEN [n |-> (last_price - prev.price) * 100, d |-> prev.price]
    ELSE Zero

VolMultiplier_inverted(turnover24h, prev) ==
    IF prev.vol > 0 /\ turnover24h > 0 THEN [n |-> prev.vol, d |-> turnover24h] ELSE Zero

\* (turnover24h / prev["vol"]) if prev["vol"] > 0 else 0
VolMultiplier(turnover24h, prev) ==
    IF prev.vol > 0 THEN [n |-> turnover24h, d |-> prev.vol] ELSE Zero

\* metric >= threshold, for a fraction with d > 0
AtLeast(metric, threshold) == metric.n >= threshold * metric.d

ThresholdsMet_strict(price_change_pct, vol_multiplier) ==
    /\ price_change_pct.n > PRICE_CHANGE_PCT * price_change_pct.d
    /\ vol_multiplier.n > VOL_MULTIPLIER * vol_multiplier.d

\* price_change_pct >= PRICE_CHANGE_PCT and vol_multiplier >= VOL_MULTIPLIER
ThresholdsMet(price_change_pct, vol_multiplier) ==
    /\ AtLeast(price_change_pct, PRICE_CHANGE_PCT)
    /\ AtLeast(vol_multiplier, VOL_MULTIPLIER)

CooldownElapsed_always(now, last_alert_time) == TRUE

\* now_epoch - last_alert_time >= MIN_ALERT_GAP
CooldownElapsed(now, last_alert_time) == now - last_alert_time >= MIN_ALERT_GAP

\* the locals of lines 137-143, before they are computed
NoLocals == [elapsed |-> 0, price_change_pct |-> Zero, vol_multiplier |-> Zero,
             last_alert_time |-> 0]

\* the alert text of lines 148-155: the symbol, the two metrics, the tick time
Alert(symbol, locals, now) ==
    [symbol |-> symbol, price_change_pct |-> locals.price_change_pct,
     vol_multiplier |-> locals.vol_multiplier, ts |-> now]

\* the outcome of one pass of the for-loop body: the two maps afterwards, the
\* branch the pass left through, the locals it computed, whether it alerted
Outcome(snaps, alerts, decision, locals, fired) ==
    [snapshots |-> snaps, last_alert |-> alerts, decision |-> decision,
     locals |-> locals, fired |-> fired]

\* lines 136-160: the symbol is liquid and has a snapshot
Evaluate(snaps, alerts, symbol, last_price, turnover24h, now) ==
    LET prev == snaps[symbol]
        elapsed == Elapsed(now, prev)
        price_change_pct == PriceChangePct(last_price, prev)
        vol_multiplier == VolMultiplier(turnover24h, prev)
        last_alert_time == LastAlertTime(alerts, symbol)
        locals == [elapsed |-> elapsed, price_change_pct |-> price_change_pct,
                   vol_multiplier |-> vol_multiplier, last_alert_time |-> last_alert_time]
        reset == Put(snaps, symbol, Observation(last_price, turnover24h, now))
    IN  IF ~WindowElapsed(elapsed)
        THEN Outcome(snaps, alerts, "WindowNotElapsed", [NoLocals EXCEPT !.elapsed = elapsed], FALSE)
        ELSE IF price_change_pct = ZeroDivisionError \/ vol_multiplier = ZeroDivisionError
        THEN Outcome(snaps, alerts, "Error", [NoLocals EXCEPT !.elapsed = elapsed], FALSE)
        ELSE IF ~ThresholdsMet(price_change_pct, vol_multiplier)
        THEN Outcome(reset, alerts, "NoThresholdMet", locals, FALSE)
        ELSE IF ~CooldownElapsed(now, last_alert_time)
        THEN Outcome(reset, alerts, "Cooldown", locals, FALSE)
        ELSE Outcome(reset, Put(alerts, symbol, now), "Fired", locals, TRUE)

\* lines 119-164: one pass of the for-loop body, with its except clause
ProcessTicker(snaps, alerts, t, now) ==
    LET symbol == t.symbol
        last_price == ParseFloat(t.lastPrice)
        turnover24h == ParseFloat(t.turnover24h)
        baseline == Put(snaps, symbol, Observation(last_price, turnover24h, now))
    IN  IF SkipSymbol(symbol)
        THEN Outcome(snaps, alerts, "Skipped", NoLocals, FALSE)
        ELSE IF RaisesValueError(t.lastPrice) \/ RaisesValueError(t.turnover24h)
        THEN Outcome(snaps, alerts, "Error", NoLocals, FALSE)
        ELSE IF BelowFloor(turnover24h)
        THEN Outcome(IF symbol \notin DOMAIN snaps THEN baseline ELSE snaps,
                     alerts, "BelowLiquidity", NoLocals, FALSE)
        ELSE IF symbol \notin DOMAIN snaps
        THEN Outcome(baseline, alerts, "NoBaseline", NoLocals, FALSE)
        ELSE Evaluate(snaps, alerts, symbol, last_price, turnover24h, now)

\* ------------------------------------------------------------------------
\* The collaborators: send_telegram and fetch_bybit_tickers
\* ------------------------------------------------------------------------
\* what can happen to one call of send_telegram
SendOutcomes == {"sent", "config missing", "status not 200", "exception"}

\* lines 46-60: True on status 200, False otherwise; it never raises
send_telegram(outcome) == outcome = "sent"

AfterSend_unlessFailed(out, alerts, ok) ==
    IF out.fired /\ ~ok THEN [out EXCEPT !.last_alert = alerts] ELSE out

\* lines 157-160: the value send_telegram returns is dropped, and the pass
\* goes on to write last_alert and the snapshot
AfterSend(out, alerts, ok) == out

OnException_propagates == "fetch"

\* lines 162-164: an exception in the loop body is logged and the loop goes
\* on with the next ticker
OnException == "scan"

\* lines 28-32: the mirrors, in the order they are tried
BYBIT_URLS == <<"api.bybit.com", "api.bytick.com", "api2.bybit.com">>

MirrorsLeft_always(tried) == TRUE

\* line 70: the for-loop over BYBIT_URLS has a mirror left after `tried`
MirrorsLeft(tried) == tried < Len(BYBIT_URLS)

\* ------------------------------------------------------------------------
\* State
\* ------------------------------------------------------------------------
VARIABLES
    snapshots,    \* symbol -> [price, vol, ts]
    last_alert,   \* symbol -> epoch
    now_epoch,    \* int(time.time()) of the current poll cycle
    pc,           \* "fetch" (line 114), "scan" (the for-loop of line 118) or
                  \* "sleep" (line 166, after a batch with no ticker)
    mirror,       \* how many mirrors fetch_bybit_tickers found failing in this
                  \* poll cycle, until a batch is being scanned
    t,            \* the ticker the last pass of the loop body processed
    result,       \* what that pass did: the branch it left through, the locals
                  \* it computed, whether it called send_telegram and what
                  \* send_telegram returned
    sent          \* the alerts sent in the current poll cycle, in order

vars == <<snapshots, last_alert, now_epoch, pc, mirror, t, result, sent>>

Empty == [x \in {} |-> 0]

NoResult == [decision |-> "none", locals |-> NoLocals, fired |-> FALSE, delivered |-> FALSE]

Init ==
    /\ snapshots = Empty
    /\ last_alert = Empty
    /\ now_epoch = StartEpoch
    /\ pc = "fetch"
    /\ mirror = 0
    /\ t = NoTicker
    /\ result = NoResult
    /\ sent = <<>>

\* lines 70-84: the next mirror answers 403 (line 73-75) or the request, the
\* status check or the JSON decoding raises (lines 82-84): on to the next one
MirrorFails ==
    /\ pc = "fetch"
    /\ MirrorsLeft(mirror)
    /\ \E failure \in {"403", "exception"} : mirror' = mirror + 1
    /\ UNCHANGED <<snapshots, last_alert, now_epoch, pc, t, result, sent>>

\* line 115: now_epoch = int(time.time()), dt after the last reading
ReadClock(dt) ==
    /\ now_epoch + dt <= StartEpoch + MaxHalfWindows * HalfWindow
    /\ now_epoch' = now_epoch + dt

\* lines 76-81 and 114-117: the next mirror answers with a list of tickers
\* (a list of any length, at least one), and the clock is read
FetchTickers ==
    /\ pc = "fetch"
    /\ MirrorsLeft(mirror)
    /\ \E dt \in Deltas : ReadClock(dt)
    /\ pc' = "scan"
    /\ mirror' = 0
    /\ t' = NoTicker
    /\ result' = NoResult
    /\ sent' = <<>>
    /\ UNCHANGED <<snapshots, last_alert>>

\* lines 78-81 and 86-87: the next mirror answers with no ticker, or no mirror
\* is left: fetch_bybit_tickers returns [], and the for-loop of line 118 has
\* nothing to do
FetchNothing ==
    /\ pc = "fetch"
    /\ \E dt \in Deltas : ReadClock(dt)
    /\ pc' = "sleep"
    /\ t' = NoTicker
    /\ result' = NoResult
    /\ sent' = <<>>
    /\ UNCHANGED <<snapshots, last_alert, mirror>>

\* lines 119-164: one pass of the loop body, on ticker tk
Pass(tk) ==
    LET out == ProcessTicker(snapshots, last_alert, tk, now_epoch)
    IN  \E ok \in IF out.fired THEN {send_telegram(o) : o \in SendOutcomes} ELSE {FALSE} :
        LET done == AfterSend(out, last_alert, ok)
        IN  /\ t' = tk
            /\ snapshots' = done.snapshots
            /\ last_alert' = done.last_alert
            /\ result' = [decision |-> done.decision, locals |-> done.locals,
                          fired |-> done.fired, delivered |-> ok]
            /\ sent' = IF done.fired
                       THEN Append(sent, Alert(tk.symbol, done.locals, now_epoch))
                       ELSE sent
            /\ pc' = IF done.decision = "Error" THEN OnException ELSE "scan"

\* line 118: the for-loop takes the next ticker of the batch
ScanTicker ==
    /\ pc = "scan"
    /\ \E tk \in Tickers : Pass(tk)
    /\ UNCHANGED <<now_epoch, mirror>>

\* line 166: the batch is exhausted, time.sleep(CHECK_INTERVAL)
Sleep ==
    /\ \/ pc = "scan" /\ t # NoTicker
       \/ pc = "sleep"
    /\ pc' = "fetch"
    /\ mirror' = 0
    /\ t' = NoTicker
    /\ result' = NoResult
    /\ sent' = <<>>
    /\ UNCHANGED <<snapshots, last_alert, now_epoch>>

Next == MirrorFails \/ FetchTickers \/ FetchNothing \/ ScanTicker \/ Sleep

Spec == Init /\ [][Next]_vars

\* ------------------------------------------------------------------------
\* The loop body as a function of the store
\* ------------------------------------------------------------------------
\* The per-ticker step reads and writes nothing but the two maps, its ticker
\* and now_epoch.  SpecStep runs one batch on a store drawn from every value
\* the two maps can hold for one symbol, those no run of main_loop builds
\* included (a last_alert entry later than the snapshot, a snapshot with a
\* negative price), with every timestamp at or before now_epoch.
Horizon == StartEpoch + MaxHalfWindows * HalfWindow

StoreTimes == {StartEpoch + k * HalfWindow : k \in 0..MaxHalfWindows}

StoreSnapshots ==
    [price : Prices \cup {0, 0 - 100}, vol : Turnovers \cup {0, 0 - 1}, ts : StoreTimes]

InitStep ==
    /\ \E symbol \in {<<"BTC", "USDT">>} :
          /\ snapshots \in {Empty} \cup {Put(Empty, symbol, snap) : snap \in StoreSnapshots}
          /\ last_alert \in {Empty} \cup {Put(Empty, symbol, ts) : ts \in StoreTimes}
    /\ now_epoch = Horizon
    /\ pc = "scan"
    /\ mirror = 0
    /\ t = NoTicker
    /\ result = NoResult
    /\ sent = <<>>

SpecStep == InitStep /\ [][ScanTicker]_vars

\* ------------------------------------------------------------------------
\* One batch over two instruments that can both alert
\* ------------------------------------------------------------------------
\* observations of both instruments: below and above the liquidity floor,
\* meeting and missing the thresholds against a snapshot of price 100, vol 1000
PairFeed ==
    [symbol : UsdtSymbols, lastPrice : {Num(100), Num(104)},
     turnover24h : {Num(500), Num(2100)}]

\* what the store holds for one instrument when the batch starts: nothing, a
\* snapshot one window old, the same with an alert sent when it was stored, or
\* a snapshot of the current tick
StoreShapes == {"unseen", "due", "alerted", "fresh"}

InitPair ==
    /\ \E shape \in [UsdtSymbols -> StoreShapes] :
          /\ snapshots = [symbol \in {x \in UsdtSymbols : shape[x] # "unseen"} |->
                            [price |-> 100, vol |-> 1000,
                             ts |-> IF shape[symbol] = "fresh"
                                    THEN Horizon ELSE Horizon - WINDOW_SECONDS]]
          /\ last_alert = [symbol \in {x \in UsdtSymbols : shape[x] = "alerted"} |->
                             Horizon - WINDOW_SECONDS]
    /\ now_epoch = Horizon
    /\ pc = "scan"
    /\ mirror = 0
    /\ t = NoTicker
    /\ result = NoResult
    /\ sent = <<>>

\* line 118: the for-loop takes the next ticker of a batch over both instruments
ScanPair ==
    /\ pc = "scan"
    /\ \E tk \in PairFeed : Pass(tk)
    /\ UNCHANGED <<now_epoch, mirror>>

SpecPair == InitPair /\ [][ScanPair]_vars

\* ------------------------------------------------------------------------
\* Vocabulary of the properties
\* ------------------------------------------------------------------------
\* a step of the for-loop body
Scanned == pc = "scan" /\ pc' = "scan"

\* a ticker the loop body reads an observation from
IsObservation(tk) ==
    /\ tk.symbol \in UsdtSymbols
    /\ tk.lastPrice.kind # "text"
    /\ tk.turnover24h.kind # "text"

PriceOf(tk) == IF tk.lastPrice.kind = "number" THEN tk.lastPrice.val ELSE 0

TurnoverOf(tk) == IF tk.turnover24h.kind = "number" THEN tk.turnover24h.val ELSE 0

\* the snapshot that equals the observation of tk at tick time now
SnapshotOf(tk, now) == [price |-> PriceOf(tk), vol |-> TurnoverOf(tk), ts |-> now]

Liquid(tk) == TurnoverOf(tk) >= MIN_TURNOVER

Seen(snaps, tk) == tk.symbol \in DOMAIN snaps

\* tk has a snapshot in snaps that is at least a window old at now
Due(snaps, tk, now) == Seen(snaps, tk) /\ now - snaps[tk.symbol].ts >= WINDOW_SECONDS

\* the observation of tk meets both thresholds against its snapshot in snaps
MeetsThresholds(snaps, tk) ==
    LET prev == snaps[tk.symbol]
    IN  /\ prev.price > 0
        /\ (PriceOf(tk) - prev.price) * 100 >= PRICE_CHANGE_PCT * prev.price
        /\ prev.vol > 0
        /\ TurnoverOf(tk) >= VOL_MULTIPLIER * prev.vol

\* the time of the last alert of tk's symbol according to alerts, 0 when none
LastFired(alerts, tk) == IF tk.symbol \in DOMAIN alerts THEN alerts[tk.symbol] ELSE 0

\* the step sent exactly one alert, for the ticker it processed, and recorded it
AlertFired ==
    /\ result'.fired
    /\ sent' = Append(sent, sent'[Len(sent')])
    /\ sent'[Len(sent')].symbol = t'.symbol
    /\ sent'[Len(sent')].ts = now_epoch
    /\ t'.symbol \in DOMAIN last_alert'
    /\ last_alert' = [last_alert' EXCEPT ![t'.symbol] = now_epoch]
    /\ \A x \in DOMAIN last_alert : x # t'.symbol => last_alert'[x] = last_alert[x]
    /\ DOMAIN last_alert' = DOMAIN last_alert \cup {t'.symbol}

\* the step sent no alert and left last_alert alone
NoAlert == ~result'.fired /\ sent' = sent /\ last_alert' = last_alert

\* the pass left before line 139 could evaluate a window
NotEvaluated == {"BelowLiquidity", "NoBaseline", "WindowNotElapsed"}

\* ------------------------------------------------------------------------
\* C1.  A pass of the loop body over an observation of a USDT symbol sends
\* an alert and sets last_alert[symbol] to the tick time if and only if the
\* turnover is at least MIN_TURNOVER, a snapshot exists and is at least
\* WINDOW_SECONDS old, both metrics reach their thresholds (equality
\* counts), and the last alert of the symbol (0 when none) is at least
\* WINDOW_SECONDS back; otherwise it sends nothing and leaves last_alert.
\* ------------------------------------------------------------------------
C1_Conditions ==
    /\ Liquid(t')
    /\ Due(snapshots, t', now_epoch)
    /\ MeetsThresholds(snapshots, t')
    /\ now_epoch - LastFired(last_alert, t') >= WINDOW_SECONDS

C1_AlertIffConditions ==
    [][Scanned /\ IsObservation(t') => IF C1_Conditions THEN AlertFired ELSE NoAlert]_vars

\* an alert for a symbol that had alerted before
C1_FiredAgain == result.fired /\ result.locals.last_alert_time > 0

\* ------------------------------------------------------------------------
\* C2.  An observation that meets both thresholds on an elapsed window less
\* than WINDOW_SECONDS after last_alert[symbol] leaves through the cooldown
\* branch: nothing is sent and last_alert is unchanged.  Hence every alert
\* comes at least WINDOW_SECONDS after the previous alert of its symbol.
\* ------------------------------------------------------------------------
C2_CooldownSuppresses ==
    [][Scanned /\ IsObservation(t') =>
         /\ ( /\ Liquid(t')
              /\ Due(snapshots, t', now_epoch)
              /\ MeetsThresholds(snapshots, t')
              /\ now_epoch - LastFired(last_alert, t') < WINDOW_SECONDS )
            => result'.decision = "Cooldown" /\ NoAlert
         /\ result'.fired => now_epoch - LastFired(last_alert, t') >= WINDOW_SECONDS
      ]_vars

\* the cooldown branch was taken, half a window after the last alert
C2_Suppressed ==
    /\ result.decision = "Cooldown"
    /\ now_epoch - result.locals.last_alert_time = HalfWindow
    /\ result.locals.elapsed >= WINDOW_SECONDS

\* ------------------------------------------------------------------------
\* C3.  A liquid observation of a symbol whose snapshot is less than
\* WINDOW_SECONDS old changes neither snapshots nor last_alert and sends no
\* alert, whatever its price and turnover.
\* ------------------------------------------------------------------------
C3_WindowNotElapsedFrame ==
    [][( /\ Scanned /\ IsObservation(t') /\ Liquid(t')
         /\ Seen(snapshots, t') /\ ~Due(snapshots, t', now_epoch) )
       => /\ snapshots' = snapshots
          /\ NoAlert
          /\ result'.decision = "WindowNotElapsed"
      ]_vars

\* half a window in, an observation that meets both thresholds is left alone
C3_HalfWindowIn ==
    /\ result.decision = "WindowNotElapsed"
    /\ result.locals.elapsed = HalfWindow
    /\ MeetsThresholds(snapshots, t)

\* ------------------------------------------------------------------------
\* C4.  A liquid observation of a symbol whose snapshot is at least
\* WINDOW_SECONDS old replaces the snapshot by the observation (price,
\* turnover, tick time), whether the thresholds are missed, met under
\* cooldown, or met with an alert; no other snapshot changes.
\* ------------------------------------------------------------------------
C4_WindowResets ==
    [][( /\ Scanned /\ IsObservation(t') /\ Liquid(t')
         /\ Due(snapshots, t', now_epoch) )
       => /\ DOMAIN snapshots' = DOMAIN snapshots
          /\ \A x \in DOMAIN snapshots :
                snapshots'[x] = IF x = t'.symbol THEN SnapshotOf(t', now_epoch)
                                ELSE snapshots[x]
          /\ result'.decision \in {"NoThresholdMet", "Cooldown", "Fired"}
      ]_vars

\* the snapshot was replaced on a pass the cooldown suppressed
C4_ResetUnderCooldown ==
    /\ result.decision = "Cooldown"
    /\ snapshots[t.symbol] = SnapshotOf(t, now_epoch)
    /\ result.locals.elapsed > WINDOW_SECONDS

\* ------------------------------------------------------------------------
\* C5.  As claimed: an observation of a symbol with no snapshot leaves
\* through the no-baseline branch (lines 132-134), sends no alert, leaves
\* last_alert alone and stores the observation as the snapshot.
\* ------------------------------------------------------------------------
C5_UnseenIsNoBaseline ==
    [][(Scanned /\ IsObservation(t') /\ ~Seen(snapshots, t'))
       => /\ result'.decision = "NoBaseline"
          /\ NoAlert
          /\ snapshots' = Put(snapshots, t'.symbol, SnapshotOf(t', now_epoch))
      ]_vars

\* C5 as amended: the same effects, and the pass leaves through the
\* no-baseline branch only when the turnover is at least MIN_TURNOVER; below
\* it the pass leaves through the below-floor branch (lines 127-130).
C5_UnseenIsBaselined ==
    [][(Scanned /\ IsObservation(t') /\ ~Seen(snapshots, t'))
       => /\ result'.decision = IF Liquid(t') THEN "NoBaseline" ELSE "BelowLiquidity"
          /\ NoAlert
          /\ DOMAIN snapshots' = DOMAIN snapshots \cup {t'.symbol}
          /\ snapshots'[t'.symbol] = SnapshotOf(t', now_epoch)
          /\ \A x \in DOMAIN snapshots : snapshots'[x] = snapshots[x]
      ]_vars

\* a first, liquid sighting was stored as the baseline
C5_FirstSighting ==
    /\ result.decision = "NoBaseline"
    /\ snapshots[t.symbol] = SnapshotOf(t, now_epoch)
    /\ PriceOf(t) > 0

\* ------------------------------------------------------------------------
\* C6.  An observation with a turnover under MIN_TURNOVER sends no alert
\* and leaves last_alert alone, whatever the price move, the age of the
\* snapshot and the cooldown; if the symbol had no snapshot, the observation
\* becomes its snapshot.
\* ------------------------------------------------------------------------
C6_BelowFloorNeverFires ==
    [][(Scanned /\ IsObservation(t') /\ ~Liquid(t'))
       => /\ NoAlert
          /\ ~Seen(snapshots, t') =>
                /\ Seen(snapshots', t')
                /\ snapshots'[t'.symbol] = SnapshotOf(t', now_epoch)
      ]_vars

\* a below-floor observation that meets both thresholds on an elapsed window
C6_BelowFloorMomentum ==
    /\ result.decision = "BelowLiquidity"
    /\ Due(snapshots, t, now_epoch)
    /\ MeetsThresholds(snapshots, t)
    /\ now_epoch - LastFired(last_alert, t) >= WINDOW_SECONDS

\* ------------------------------------------------------------------------
\* C7.  As claimed: when a pass that did not evaluate a window is repeated
\* on the same observation at the same tick time, the second pass leaves
\* through the same branch and changes neither map.
\* ------------------------------------------------------------------------
C7_Repeat ==
    /\ Scanned
    /\ t' = t
    /\ IsObservation(t)
    /\ result.decision \in NotEvaluated

C7_SameDecisionTwice ==
    [][C7_Repeat =>
         /\ result'.decision = result.decision
         /\ snapshots' = snapshots
         /\ last_alert' = last_alert
      ]_vars

\* C7 as amended: the second pass changes neither map, neither pass sends an
\* alert, and the second pass leaves through the same branch as the first
\* unless the first stored a first baseline (no-baseline branch): then the
\* second finds that baseline and leaves through the window-not-elapsed branch.
C7_RepeatChangesNothing ==
    [][C7_Repeat =>
         /\ snapshots' = snapshots
         /\ NoAlert
         /\ ~result.fired
         /\ result'.decision =
               IF result.decision = "NoBaseline" THEN "WindowNotElapsed"
               ELSE result.decision
      ]_vars

\* an observation met the baseline the same observation stored at this tick
C7_RepeatedFirstSighting ==
    /\ result.decision = "WindowNotElapsed"
    /\ result.locals.elapsed = 0
    /\ snapshots[t.symbol] = SnapshotOf(t, now_epoch)

\* ------------------------------------------------------------------------
\* C8.  When a window is evaluated against a snapshot whose price is not
\* positive, price_change_pct is 0; when its vol is not positive,
\* vol_multiplier is 0; in both cases the pass raises nothing, replaces the
\* snapshot and sends no alert.
\* ------------------------------------------------------------------------
C8_ZeroGuard ==
    [][( /\ Scanned /\ IsObservation(t') /\ Liquid(t')
         /\ Due(snapshots, t', now_epoch) )
       => LET prev == snapshots[t'.symbol]
          IN  /\ prev.price <= 0 => result'.locals.price_change_pct = Zero
              /\ prev.vol <= 0 => result'.locals.vol_multiplier = Zero
              /\ (prev.price <= 0 \/ prev.vol <= 0) =>
                    /\ result'.decision = "NoThresholdMet"
                    /\ NoAlert
                    /\ snapshots'[t'.symbol] = SnapshotOf(t', now_epoch)
      ]_vars

\* a window evaluated with both metrics short-circuited to 0
C8_BothGuardsTaken ==
    /\ result.decision = "NoThresholdMet"
    /\ result.locals.price_change_pct = Zero
    /\ result.locals.vol_multiplier = Zero
    /\ PriceOf(t) > 0

\* ------------------------------------------------------------------------
\* C9.  On an elapsed window with a positive snapshot price and vol,
\* price_change_pct = (price - snapshot.price) / snapshot.price * 100 and
\* vol_multiplier = turnover / snapshot.vol; snapshot (100, 1000) and
\* observation (104, 2100) with no earlier alert send an alert with
\* price_change_pct = 4 and vol_multiplier = 2.1.
\* ------------------------------------------------------------------------
C9_Metrics ==
    [][( /\ Scanned /\ IsObservation(t') /\ Liquid(t')
         /\ Due(snapshots, t', now_epoch)
         /\ snapshots[t'.symbol].price > 0 /\ snapshots[t'.symbol].vol > 0 )
       => LET prev == snapshots[t'.symbol]
              pct == result'.locals.price_change_pct
              mult == result'.locals.vol_multiplier
          IN  /\ pct.d > 0
              /\ pct.n * prev.price = (PriceOf(t') - prev.price) * 100 * pct.d
              /\ mult.d > 0
              /\ mult.n * prev.vol = TurnoverOf(t') * mult.d
              /\ ( /\ prev.price = 100 /\ prev.vol = 1000
                   /\ PriceOf(t') = 104 /\ TurnoverOf(t') = 2100
                   /\ t'.symbol \notin DOMAIN last_alert )
                 => /\ AlertFired
                    /\ pct.n = 4 * pct.d
                    /\ 10 * mult.n = 21 * mult.d
                    /\ sent'[Len(sent')].price_change_pct = pct
                    /\ sent'[Len(sent')].vol_multiplier = mult
      ]_vars

\* the alert of the example: 4 percent, 2.1 times, first alert of the symbol
C9_Example ==
    /\ result.fired
    /\ PriceOf(t) = 104 /\ TurnoverOf(t) = 2100
    /\ result.locals.price_change_pct.n = 4 * result.locals.price_change_pct.d
    /\ 10 * result.locals.vol_multiplier.n = 21 * result.locals.vol_multiplier.d
    /\ result.locals.last_alert_time = 0

\* ------------------------------------------------------------------------
\* C10.  Within one poll cycle no symbol gets more than one alert, also when
\* the batch holds the symbol more than once.
\* ------------------------------------------------------------------------
C10_OneAlertPerSymbolPerTick ==
    \A i, j \in 1..Len(sent) : i < j => sent[i].symbol # sent[j].symbol

\* the symbol that alerted in this cycle came again, with both thresholds met
\* against its new snapshot, and did not alert
C10_SecondSightingSilent ==
    /\ Len(sent) = 1
    /\ IsObservation(t)
    /\ t.symbol = sent[1].symbol
    /\ ~result.fired
    /\ Liquid(t)
    /\ MeetsThresholds(snapshots, t)

\* ------------------------------------------------------------------------
\* C11.  With tick times that never decrease, no stored snapshot is stamped
\* later than the current tick, and every elapsed time a pass computes
\* against a snapshot is zero or more.
\* ------------------------------------------------------------------------
C11_ElapsedNonNegative ==
    /\ \A symbol \in DOMAIN snapshots : snapshots[symbol].ts <= now_epoch
    /\ result.locals.elapsed >= 0

\* a liquid observation compared with the snapshot stored in the same tick
C11_ComparedInSameTick ==
    /\ result.decision = "WindowNotElapsed"
    /\ result.locals.elapsed = 0
    /\ snapshots[t.symbol].ts = now_epoch

\* ------------------------------------------------------------------------
\* C12.  last_alert[symbol] never decreases: no entry is ever removed or
\* lowered, and the only write is the one of a pass that alerts, which sets
\* the entry of its symbol to the current tick time and touches no other.
\* ------------------------------------------------------------------------
C12_LastAlertOnlyRises ==
    [][ /\ \A symbol \in DOMAIN last_alert :
             /\ symbol \in DOMAIN last_alert'
             /\ last_alert'[symbol] >= last_alert[symbol]
        /\ last_alert' # last_alert =>
             /\ pc = "scan"
             /\ result'.fired
             /\ DOMAIN last_alert' = DOMAIN last_alert \cup {t'.symbol}
             /\ \A symbol \in DOMAIN last_alert \ {t'.symbol} :
                  last_alert'[symbol] = last_alert[symbol]
        /\ (pc = "scan" /\ result'.fired) =>
             /\ t'.symbol \in DOMAIN last_alert'
             /\ last_alert'[t'.symbol] = now_epoch
      ]_vars

\* an alert that raised an entry of last_alert to the current tick time
C12_EntryRaised ==
    /\ result.fired
    /\ result.locals.last_alert_time > 0
    /\ result.locals.last_alert_time < now_epoch
    /\ last_alert[t.symbol] = now_epoch

\* ------------------------------------------------------------------------
\* C13.  Within one tick the observations of distinct instruments can be
\* processed in either order: the two maps end up the same and the same set
\* of alerts is sent.  A pass over one instrument leaves the snapshot and the
\* last_alert entry of every other instrument as they were.
\* ------------------------------------------------------------------------
C13_Alerts(first_tk, first, second_tk, second, now) ==
    (IF first.fired THEN {Alert(first_tk.symbol, first.locals, now)} ELSE {})
    \cup (IF second.fired THEN {Alert(second_tk.symbol, second.locals, now)} ELSE {})

C13_OthersUntouched(before, after, symbol) ==
    \A other \in (DOMAIN before \cup DOMAIN after) \ {symbol} :
        /\ other \in DOMAIN before
        /\ other \in DOMAIN after
        /\ after[other] = before[other]

C13_OrderIndependent ==
    [][Scanned =>
         /\ C13_OthersUntouched(snapshots, snapshots', t'.symbol)
         /\ C13_OthersUntouched(last_alert, last_alert', t'.symbol)
         /\ \A other \in PairFeed : other.symbol # t'.symbol =>
              LET \* the other ticker after this pass
                  after == ProcessTicker(snapshots', last_alert', other, now_epoch)
                  \* the other ticker first, then the ticker of this pass
                  first == ProcessTicker(snapshots, last_alert, other, now_epoch)
                  second == ProcessTicker(first.snapshots, first.last_alert, t', now_epoch)
              IN  /\ after.snapshots = second.snapshots
                  /\ after.last_alert = second.last_alert
                  /\ C13_Alerts(t', result', other, after, now_epoch)
                       = C13_Alerts(other, first, t', second, now_epoch)
      ]_vars

\* both instruments alerted in one tick
C13_BothAlerted ==
    /\ Len(sent) = 2
    /\ sent[1].symbol # sent[2].symbol
    /\ DOMAIN last_alert = UsdtSymbols

\* ------------------------------------------------------------------------
\* C14.  A ticker whose processing raises (a lastPrice or turnover24h that
\* float() rejects) does not halt the batch: the loop goes on to the next
\* ticker with both maps, and the alerts sent so far, exactly as they were
\* before the failing ticker, whose snapshot and last_alert entry are
\* therefore unchanged too.
\* ------------------------------------------------------------------------
C14_Raises(tk) ==
    /\ ~SkipSymbol(tk.symbol)
    /\ RaisesValueError(tk.lastPrice) \/ RaisesValueError(tk.turnover24h)

C14_FailingTickerSkipped ==
    [][(pc = "scan" /\ result'.decision # "none" /\ C14_Raises(t')) =>
         /\ pc' = "scan"
         /\ result'.decision = "Error"
         /\ snapshots' = snapshots
         /\ last_alert' = last_alert
         /\ NoAlert
      ]_vars

\* a ticker that raised, in a batch that had already alerted for its symbol
C14_RaisedAfterAlert ==
    /\ pc = "scan"
    /\ result.decision = "Error"
    /\ C14_Raises(t)
    /\ Len(sent) = 1
    /\ sent[1].symbol = t.symbol
    /\ last_alert[t.symbol] = now_epoch

\* ------------------------------------------------------------------------
\* C15.  A USDT ticker whose lastPrice or turnover24h is missing (absent,
\* null or empty) is rejected: the pass creates or changes no snapshot,
\* changes no last_alert entry and sends no alert.
\* ------------------------------------------------------------------------
C15_Missing(tk) ==
    /\ ~SkipSymbol(tk.symbol)
    /\ tk.lastPrice \in MissingField \/ tk.turnover24h \in MissingField

C15_MissingFieldRejected ==
    [][(pc = "scan" /\ result'.decision # "none" /\ C15_Missing(t')) =>
         /\ snapshots' = snapshots
         /\ last_alert' = last_alert
         /\ NoAlert
      ]_vars

\* ------------------------------------------------------------------------
\* C16.  An instrument goes from unseen to baselined and never back: a
\* snapshot, once stored, is there in every later state, and it is either
\* the one of the state before or, whole, the observation of the pass that
\* replaced it.  Every symbol with a last_alert entry has a snapshot.
\* ------------------------------------------------------------------------
C16_BaselinedForGood ==
    [][ /\ DOMAIN snapshots \subseteq DOMAIN snapshots'
        /\ DOMAIN last_alert' \subseteq DOMAIN snapshots'
        /\ \A symbol \in DOMAIN snapshots' :
             \/ /\ symbol \in DOMAIN snapshots
                /\ snapshots'[symbol] = snapshots[symbol]
             \/ /\ pc = "scan"
                /\ symbol = t'.symbol
                /\ IsObservation(t')
                /\ snapshots'[symbol] = SnapshotOf(t', now_epoch)
      ]_vars

\* a snapshot replaced after an alert, with the snapshot of another instrument
\* in the store
C16_ReplacedBesideAnother ==
    /\ result.decision = "NoThresholdMet"
    /\ t.symbol \in DOMAIN last_alert
    /\ snapshots[t.symbol].ts > last_alert[t.symbol]
    /\ DOMAIN snapshots = UsdtSymbols

\* ------------------------------------------------------------------------
\* C17.  A below-floor observation of an instrument that has a snapshot
\* leaves the snapshot (price, vol and ts) unchanged, also when the window
\* has elapsed; a liquid observation of the instrument that follows it is
\* compared against that older snapshot.
\* ------------------------------------------------------------------------
C17_BelowFloorKeepsSnapshot ==
    [][Scanned /\ IsObservation(t') /\ Seen(snapshots, t') =>
         /\ ~Liquid(t') =>
              /\ result'.decision = "BelowLiquidity"
              /\ snapshots' = snapshots
         /\ ( /\ result.decision = "BelowLiquidity"
              /\ t.symbol = t'.symbol
              /\ Liquid(t')
              /\ Due(snapshots, t', now_epoch) ) =>
              /\ result'.decision \notin NotEvaluated
              /\ result'.locals.elapsed = now_epoch - snapshots[t'.symbol].ts
      ]_vars

\* a below-floor observation that left alone a snapshot older than a window
C17_OldSnapshotKept ==
    /\ result.decision = "BelowLiquidity"
    /\ now_epoch - snapshots[t.symbol].ts > WINDOW_SECONDS
    /\ TurnoverOf(t) > 0

\* ------------------------------------------------------------------------
\* C18.  In every reachable state last_alert[symbol] is at most
\* snapshots[symbol].ts, for every symbol with a last_alert entry.  So an
\* observation whose window has elapsed is also past the cooldown, and no
\* pass of the running program leaves through the cooldown branch.
\* ------------------------------------------------------------------------
C18_CooldownNeverSuppresses ==
    /\ \A symbol \in DOMAIN last_alert :
         /\ symbol \in DOMAIN snapshots
         /\ last_alert[symbol] <= snapshots[symbol].ts
    /\ result.decision # "Cooldown"

\* an alert exactly one window after the previous alert of its symbol, the
\* soonest the window allows
C18_SoonestRepeat ==
    /\ result.fired
    /\ result.locals.last_alert_time > 0
    /\ now_epoch - result.locals.last_alert_time = WINDOW_SECONDS
    /\ result.locals.elapsed = WINDOW_SECONDS

\* ------------------------------------------------------------------------
\* C19.  When a pass decides to alert and send_telegram returns False, the
\* pass still sets last_alert[symbol] to the tick time and resets the
\* snapshot to the observation; the alert was attempted once, and a repeat of
\* the pass on the same observation would not alert again.
\* ------------------------------------------------------------------------
C19_FailedDeliveryStillCounts ==
    (result.fired /\ ~result.delivered) =>
        /\ t.symbol \in DOMAIN last_alert
        /\ last_alert[t.symbol] = now_epoch
        /\ snapshots[t.symbol] = SnapshotOf(t, now_epoch)
        /\ sent # <<>>
        /\ sent[Len(sent)] = Alert(t.symbol, result.locals, now_epoch)
        /\ ~ProcessTicker(snapshots, last_alert, t, now_epoch).fired

\* an alert that was not delivered
C19_FailedDelivery ==
    /\ result.fired
    /\ ~result.delivered
    /\ last_alert[t.symbol] = now_epoch

\* ------------------------------------------------------------------------
\* C20.  fetch_bybit_tickers tries the mirrors of BYBIT_URLS in list order,
\* each at most once: a mirror that answers 403 or raises sends it on to the
\* next one, a mirror that answers ends the search with its list, empty or
\* not, and when no mirror is left it returns the empty list.  So it returns
\* after at most Len(BYBIT_URLS) tries.  A poll cycle whose batch is empty
\* changes neither map and sends no alert.
\* ------------------------------------------------------------------------
C20_Returned ==
    /\ snapshots' = snapshots
    /\ last_alert' = last_alert
    /\ sent' = <<>>
    /\ \/ pc' = "scan" /\ mirror' = 0
       \/ pc' = "sleep" /\ mirror' = mirror

C20_FetchTerminates ==
    [][ /\ mirror' \in 0..Len(BYBIT_URLS)
        /\ pc = "fetch" =>
             \/ /\ mirror < Len(BYBIT_URLS)
                /\ mirror' = mirror + 1
                /\ pc' = "fetch"
                /\ UNCHANGED <<snapshots, last_alert, now_epoch, t, result, sent>>
             \/ C20_Returned
        /\ (pc = "fetch" /\ mirror = Len(BYBIT_URLS)) => pc' = "sleep"
        /\ pc = "sleep" =>
             /\ pc' = "fetch"
             /\ snapshots' = snapshots
             /\ last_alert' = last_alert
             /\ sent' = <<>>
             /\ ~result'.fired
      ]_vars

\* every mirror failed, in a poll cycle of a program that holds a snapshot
C20_EveryMirrorFailed ==
    /\ pc = "sleep"
    /\ mirror = Len(BYBIT_URLS)
    /\ snapshots # Empty

====
